---- MODULE Spec2Model ----
(***************************************************************************)
(* NPChat: the feedback ledger (FeedbackLearner), the response cache       *)
(* (ResponseCache) and the hybrid retriever (HybridRetriever).             *)
(*                                                                         *)
(* Text is a sequence of one-character strings.  Scores are integers in    *)
(* millionths (0.1 is 100000, 1.0 is ScoreOne).  A SQLite table is        *)
(* the set of its rows; a digest (sha256, truncated) is modelled by the    *)
(* text it digests, so two digests are equal exactly when their inputs     *)
(* are.  The timestamp columns of the ledger tables (last_updated,         *)
(* created_at, resolved_at, last_used) are written by the code and read by *)
(* none of the modelled operations; they are left out.                     *)
(***************************************************************************)
EXTENDS Integers, Sequences, FiniteSets, TLC

VARIABLES
    chunk_adjustments,  \* table chunk_adjustments of feedback_learning.db
    flagged_queries,    \* table flagged_queries
    query_mappings,     \* table query_mappings, in rowid order
    response_cache,     \* table response_cache of response_cache.db
    now,                \* the clock, in hours
    ret,                \* the last call: its name, arguments, locals and return value
                        \* (a get also keeps the set it directly follows, if any)
    flagHistory,        \* history: the kinds of call made on the flagged-query table
    history,            \* history: the calls made so far, counted per key
    threads,            \* concurrent callers of the ledger: position and locals
    bm25,               \* HybridRetriever._bm25 with _corpus_ids: None or a snapshot
    store,              \* the corpus store: its chunk ids, in insertion order
    builds,             \* history: runs of _build_bm25_index since the corpus changed
    retrievers,         \* concurrent callers of retrieve: position and locals
    chat                \* the chat front end: its requests in progress, the
                        \* analytics log and the calls made to the generator

vars == <<chunk_adjustments, flagged_queries, query_mappings, response_cache, now,
          ret, flagHistory, history, threads, bm25, store, builds, retrievers, chat>>

ledgerVars == <<chunk_adjustments, flagged_queries, query_mappings>>
concVars == <<threads>>
chatVars == <<chat>>
retrVars == <<bm25, store, builds, retrievers>>

None == [kind |-> "None"]

-----------------------------------------------------------------------------
(* Bounds and input sets                                                   *)

MaxCount == 3        \* a counter column is driven no higher than this
MaxTime == 2         \* the clock is driven no further than this
MaxResults == 2      \* length of a retrieval result list

QHi == <<"h", "i">>
QHiUpper == <<"H", "i">>
QHiPadded == <<" ", "H", "i">>
QYo == <<"y", "o">>
QAccent == <<"U+00C9">>      \* one non-ASCII capital letter (E acute)

ChunkIds == {"c1", "c2"}
Thresholds == {2, 3}
Resolutions == {"resolved", "dismissed"}

-----------------------------------------------------------------------------
(* Text                                                                    *)

\* str.lower() of Python: Unicode-aware
PyLowerChar(c) ==
    CASE c = "H" -> "h"
      [] c = "U+00C9" -> "U+00E9"
      [] OTHER -> c

\* LOWER() of SQLite: ASCII letters only
SqlLowerChar(c) == IF c = "H" THEN "h" ELSE c

PyLower(s) == [i \in 1..Len(s) |-> PyLowerChar(s[i])]
SqlLower(s) == [i \in 1..Len(s) |-> SqlLowerChar(s[i])]

RECURSIVE LStrip(_)
LStrip(s) == IF Len(s) > 0 /\ s[1] = " " THEN LStrip(SubSeq(s, 2, Len(s))) ELSE s

RECURSIVE RStrip(_)
RStrip(s) == IF Len(s) > 0 /\ s[Len(s)] = " " THEN RStrip(SubSeq(s, 1, Len(s) - 1)) ELSE s

\* str.strip()
PyStrip(s) == RStrip(LStrip(s))

\* query.lower().strip()
Normalize(q) == PyStrip(PyLower(q))

\* FeedbackLearner._hash_query
learner_hash_query(query) == Normalize(query)

\* json.dumps / json.loads of a list of strings or of dicts of strings, which
\* JSON carries unchanged; the text is never the empty string
JsonDumps(value) == [json |-> value]
JsonLoads(text) == text.json

-----------------------------------------------------------------------------
(* 2. Chunk boosting / penalizing                                          *)

BoostDelta == 100000
PenaltyDelta == 150000
ScoreOne == 1000000
DefaultBase == 500000

Adjustment(is_positive) == IF is_positive THEN BoostDelta ELSE 0 - PenaltyDelta

AdjRow(rows, chunk_id) == {r \in rows : r.chunk_id = chunk_id}

\* a faulty variant: the UPDATE stores the delta of this call alone
adjust_overwrite(rows, chunk_id, is_positive) ==
    {IF r.chunk_id = chunk_id
        THEN [r EXCEPT !.score_adjustment = Adjustment(is_positive),
                       !.positive_count = IF is_positive THEN @ + 1 ELSE @,
                       !.negative_count = IF is_positive THEN @ ELSE @ + 1]
        ELSE r : r \in rows}

\* the UPDATE of adjust_chunk_score: relative to the stored row
adjust_update(rows, chunk_id, is_positive) ==
    {IF r.chunk_id = chunk_id
        THEN [r EXCEPT !.score_adjustment = @ + Adjustment(is_positive),
                       !.positive_count = IF is_positive THEN @ + 1 ELSE @,
                       !.negative_count = IF is_positive THEN @ ELSE @ + 1]
        ELSE r : r \in rows}

\* the INSERT of adjust_chunk_score
adjust_insert(rows, chunk_id, is_positive) ==
    rows \cup {[chunk_id |-> chunk_id,
                score_adjustment |-> Adjustment(is_positive),
                positive_count |-> IF is_positive THEN 1 ELSE 0,
                negative_count |-> IF is_positive THEN 0 ELSE 1]}

\* adjust_chunk_score run alone: SELECT, then UPDATE or INSERT
adjust_chunk_score(rows, chunk_id, is_positive) ==
    IF AdjRow(rows, chunk_id) # {}
        THEN adjust_update(rows, chunk_id, is_positive)
        ELSE adjust_insert(rows, chunk_id, is_positive)

RECURSIVE adjust_all(_, _, _)
adjust_all(rows, chunk_ids, is_positive) ==
    IF chunk_ids = <<>> THEN rows
    ELSE adjust_all(adjust_chunk_score(rows, Head(chunk_ids), is_positive),
                    Tail(chunk_ids), is_positive)

get_chunk_adjustment(rows, chunk_id) ==
    IF AdjRow(rows, chunk_id) = {} THEN 0
    ELSE (CHOOSE r \in AdjRow(rows, chunk_id) : TRUE).score_adjustment

\* get_all_chunk_adjustments: the dict chunk_id -> score_adjustment
get_all_chunk_adjustments(rows) ==
    [c \in {r.chunk_id : r \in rows} |-> get_chunk_adjustment(rows, c)]

Max(a, b) == IF a >= b THEN a ELSE b
Min(a, b) == IF a <= b THEN a ELSE b

\* a faulty variant: the adjusted score is not clamped
NoClamp(x) == x

\* max(0, min(1, original_score + adjustment))
ClampScore(x) == Max(0, Min(ScoreOne, x))

\* result.get("combined_score", result.get("semantic_score", 0.5))
BaseScore(result) ==
    IF "combined_score" \in DOMAIN result THEN result.combined_score
    ELSE IF "semantic_score" \in DOMAIN result THEN result.semantic_score
    ELSE DefaultBase

\* one field added to a dict
WithField(rec, name, value) ==
    [f \in DOMAIN rec \cup {name} |-> IF f = name THEN value ELSE rec[f]]

\* the body of the for loop of apply_adjustments_to_results
AdjustResult(adjustments, result) ==
    IF result.id \in DOMAIN adjustments
        THEN WithField(WithField(result, "adjusted_score",
                                 ClampScore(BaseScore(result) + adjustments[result.id])),
                       "had_adjustment", TRUE)
        ELSE WithField(WithField(result, "adjusted_score", BaseScore(result)),
                       "had_adjustment", FALSE)

\* x.get("adjusted_score", 0)
SortKey(result) == IF "adjusted_score" \in DOMAIN result THEN result.adjusted_score ELSE 0

\* list.sort(key, reverse=True): stable, descending
RECURSIVE InsertDesc(_, _)
InsertDesc(sorted, x) ==
    IF sorted = <<>> THEN <<x>>
    ELSE IF SortKey(Head(sorted)) >= SortKey(x)
        THEN <<Head(sorted)>> \o InsertDesc(Tail(sorted), x)
        ELSE <<x>> \o sorted

RECURSIVE SortDesc(_)
SortDesc(results) ==
    IF results = <<>> THEN <<>>
    ELSE InsertDesc(SortDesc(SubSeq(results, 1, Len(results) - 1)), results[Len(results)])

apply_adjustments_to_results(rows, results) ==
    LET adjustments == get_all_chunk_adjustments(rows) IN
    IF DOMAIN adjustments = {} THEN results
    ELSE SortDesc([i \in 1..Len(results) |-> AdjustResult(adjustments, results[i])])

-----------------------------------------------------------------------------
(* 3. Auto-flagging                                                        *)

DefaultThreshold == 2

FlagRow(rows, query_hash) == {r \in rows : r.query_hash = query_hash}

\* a faulty variant: the count alone decides
ShouldReportAnyStatus(new_count, threshold, status) == new_count >= threshold

\* the condition under which flag_query_if_needed returns a reason
ShouldReport(new_count, threshold, status) ==
    new_count >= threshold /\ status = "pending"

\* the UPDATE of flag_query_if_needed: writes the count computed by the caller
flag_update(rows, query_hash, new_count) ==
    {IF r.query_hash = query_hash THEN [r EXCEPT !.negative_count = new_count] ELSE r
        : r \in rows}

\* the INSERT of flag_query_if_needed
flag_insert(rows, query) ==
    rows \cup {[query |-> query, query_hash |-> learner_hash_query(query),
                negative_count |-> 1, flag_reason |-> None, status |-> "monitoring"]}

\* flag_query_if_needed run alone: the table afterwards and the value returned
flag_query_if_needed(rows, query, threshold) ==
    LET h == learner_hash_query(query)
        found == FlagRow(rows, h)
    IN  IF found # {}
        THEN LET row == CHOOSE r \in found : TRUE
                 new_count == row.negative_count + 1
             IN  [rows |-> flag_update(rows, h, new_count),
                  reason |-> IF ShouldReport(new_count, threshold, row.status)
                                THEN [kind |-> "Query has", n |-> new_count]
                                ELSE None]
        ELSE [rows |-> flag_insert(rows, query), reason |-> None]

update_flag_status(rows, query, negative_count, threshold) ==
    IF negative_count >= threshold
        THEN {IF r.query_hash = learner_hash_query(query)
                THEN [r EXCEPT !.status = "pending",
                               !.flag_reason = [kind |-> "Received", n |-> negative_count]]
                ELSE r : r \in rows}
        ELSE rows

\* the rows listed by get_flagged_queries(status) (their order is not modelled)
get_flagged_queries(rows, status) == {r \in rows : r.status = status}

resolve_flag(rows, query, resolution) ==
    {IF r.query_hash = learner_hash_query(query) THEN [r EXCEPT !.status = resolution] ELSE r
        : r \in rows}

-----------------------------------------------------------------------------
(* 4. Query mapping learning                                               *)

HasMapping(rows, query_hash) == \E i \in 1..Len(rows) : rows[i].query_hash = query_hash

\* a faulty variant: a row is inserted on every call
learn_always_insert(rows, query, successful_chunk_ids) ==
    Append(rows, [original_query |-> query, query_hash |-> learner_hash_query(query),
                  successful_chunks |-> JsonDumps(successful_chunk_ids),
                  positive_count |-> 1])

learn_successful_query(rows, query, successful_chunk_ids) ==
    LET h == learner_hash_query(query) IN
    IF HasMapping(rows, h)
        THEN [i \in 1..Len(rows) |->
                IF rows[i].query_hash = h
                    THEN [rows[i] EXCEPT !.positive_count = @ + 1,
                                         !.successful_chunks = JsonDumps(successful_chunk_ids)]
                    ELSE rows[i]]
        ELSE Append(rows, [original_query |-> query, query_hash |-> h,
                           successful_chunks |-> JsonDumps(successful_chunk_ids),
                           positive_count |-> 1])

-----------------------------------------------------------------------------
(* Response cache                                                          *)

TtlHours == 1        \* ResponseCache.ttl_hours of the modelled cache
DefaultTopK == 5

\* settings.get(name, default)
SettingGet(settings, name, default) ==
    IF name \in DOMAIN settings THEN settings[name] ELSE default

\* a faulty variant: every setting, temperature included, enters the key
KeySettingsAll(settings) == settings

\* the dict that _hash_query serialises with sorted keys
KeySettings(settings) ==
    [top_k |-> SettingGet(settings, "top_k", DefaultTopK),
     use_expansion |-> SettingGet(settings, "use_expansion", TRUE),
     use_hybrid |-> SettingGet(settings, "use_hybrid", TRUE),
     use_hyde |-> SettingGet(settings, "use_hyde", FALSE)]

\* ResponseCache._hash_query: the digest of "{normalized}|{settings_str}"
cache_hash_query(query, settings) == <<Normalize(query), KeySettings(settings)>>

\* ResponseCache._hash_settings: the digest of the whole settings dict
cache_hash_settings(settings) == settings

CacheRow(rows, query_hash) == {r \in rows : r.query_hash = query_hash}

\* a faulty variant: an entry aged exactly the TTL still counts as fresh
IsFreshInclusive(created_at, t) == t - created_at <= TtlHours

\* datetime.now(timezone.utc) - created < timedelta(hours=self.ttl_hours)
IsFresh(created_at, t) == t - created_at < TtlHours

\* ResponseCache.get at time t: the table afterwards, the row the SELECT fetched
\* (None when there is none) and the value returned
cache_get(rows, query, settings, t) ==
    LET found == CacheRow(rows, cache_hash_query(query, settings)) IN
    IF found # {}
        THEN LET row == CHOOSE r \in found : TRUE IN
             IF IsFresh(row.created_at, t)
                THEN [rows |-> (rows \ {row}) \cup {[row EXCEPT !.hit_count = @ + 1]},
                      found |-> row,
                      result |-> [answer |-> row.response,
                                  sources |-> JsonLoads(row.sources),
                                  cached |-> TRUE]]
                ELSE [rows |-> rows \ {row}, found |-> row, result |-> None]
        ELSE [rows |-> rows, found |-> None, result |-> None]

\* a faulty variant: a replaced row hands its hit count on
cache_set_keeping_hits(rows, query, settings, response, sources, t) ==
    LET h == cache_hash_query(query, settings) IN
    (rows \ CacheRow(rows, h))
        \cup {[query_hash |-> h, query |-> query,
               settings_hash |-> cache_hash_settings(settings),
               response |-> response, sources |-> JsonDumps(sources),
               created_at |-> t,
               hit_count |-> IF CacheRow(rows, h) = {} THEN 1
                             ELSE (CHOOSE r \in CacheRow(rows, h) : TRUE).hit_count]}

\* ResponseCache.set at time t: INSERT OR REPLACE on the unique query_hash
cache_set(rows, query, settings, response, sources, t) ==
    LET h == cache_hash_query(query, settings) IN
    (rows \ CacheRow(rows, h))
        \cup {[query_hash |-> h, query |-> query,
               settings_hash |-> cache_hash_settings(settings),
               response |-> response, sources |-> JsonDumps(sources),
               created_at |-> t, hit_count |-> 1]}

\* the rows DELETE FROM response_cache WHERE created_at < cutoff removes
ExpiredForSweep(rows, t) == {r \in rows : r.created_at < t - TtlHours}

\* ResponseCache.clear_expired at time t
cache_clear_expired(rows, t) ==
    [rows |-> rows \ ExpiredForSweep(rows, t),
     deleted |-> Cardinality(ExpiredForSweep(rows, t))]

-----------------------------------------------------------------------------
(* 1. Cache invalidation, and the combined entry point                     *)

\* a faulty variant: every row is removed
AllCacheRows(rows, query) == rows

\* the rows DELETE FROM response_cache WHERE LOWER(query) = ? removes
InvalidatedRows(rows, query) == {r \in rows : SqlLower(r.query) = Normalize(query)}

invalidate_cache_for_query(rows, query) ==
    [rows |-> rows \ InvalidatedRows(rows, query),
     invalidated |-> InvalidatedRows(rows, query) # {}]

\* process_feedback: every table afterwards and the dict of actions returned
process_feedback(query, is_positive, chunk_ids, has_cache) ==
    IF is_positive
    THEN [adj |-> adjust_all(chunk_adjustments, chunk_ids, TRUE),
          maps |-> learn_successful_query(query_mappings, query, chunk_ids),
          flags |-> flagged_queries,
          cache |-> response_cache,
          actions |-> [cache_invalidated |-> FALSE, chunks_adjusted |-> chunk_ids,
                       query_flagged |-> FALSE, flag_reason |-> None,
                       query_learned |-> TRUE]]
    ELSE LET inv == IF has_cache
                        THEN invalidate_cache_for_query(response_cache, query)
                        ELSE [rows |-> response_cache, invalidated |-> FALSE]
             flg == flag_query_if_needed(flagged_queries, query, DefaultThreshold)
         IN [adj |-> adjust_all(chunk_adjustments, chunk_ids, FALSE),
             maps |-> query_mappings,
             flags |-> flg.rows,
             cache |-> inv.rows,
             actions |-> [cache_invalidated |-> inv.invalidated,
                          chunks_adjusted |-> chunk_ids,
                          query_flagged |-> flg.reason # None,
                          flag_reason |-> flg.reason,
                          query_learned |-> FALSE]]

-----------------------------------------------------------------------------
(* Hybrid retrieval.  A chunk is known by its id; its text and metadata    *)
(* are left out of a result.  The embedding distance of a chunk to a query *)
(* and the score BM25Okapi gives it are tables of the modelled corpus.     *)

SemanticWeight == 70     \* semantic_weight, in hundredths
Bm25Weight == 30         \* bm25_weight, in hundredths
RrfK == 60

\* the url in a chunk's metadata
UrlOf(chunk_id) == IF chunk_id = "c1" THEN "u1" ELSE "u2"

\* L2 distance of the chunk's embedding to the query's, in hundredths
Distance(query, chunk_id) ==
    IF query = QHi THEN (IF chunk_id = "c1" THEN 20 ELSE 60)
    ELSE (IF chunk_id = "c1" THEN 80 ELSE 30)

\* BM25Okapi.get_scores for one document
Bm25Score(query, chunk_id) ==
    IF query = QHi THEN (IF chunk_id = "c1" THEN 1 ELSE 2)
    ELSE (IF chunk_id = "c1" THEN 0 ELSE 3)

\* seq[:n]
Take(seq, n) == SubSeq(seq, 1, Min(n, Len(seq)))

\* sorted(..., key, reverse=True) over entries that carry their key: stable
RECURSIVE InsertByKey(_, _)
InsertByKey(sorted, x) ==
    IF sorted = <<>> THEN <<x>>
    ELSE IF Head(sorted).key >= x.key
        THEN <<Head(sorted)>> \o InsertByKey(Tail(sorted), x)
        ELSE <<x>> \o sorted

\* variant: the entries left in the order they came in
Unsorted(entries) == entries

RECURSIVE SortByKey(_)
SortByKey(entries) ==
    IF entries = <<>> THEN <<>>
    ELSE InsertByKey(SortByKey(SubSeq(entries, 1, Len(entries) - 1)), entries[Len(entries)])

\* VectorStore.search: the top_k chunks of the collection, nearest first
vector_store_search(ids, query, top_k) ==
    LET near == SortByKey([i \in 1..Len(ids) |->
                    [key |-> 0 - Distance(query, ids[i]), id |-> ids[i]]])
    IN  Take([i \in 1..Len(near) |->
                [id |-> near[i].id, distance |-> Distance(query, near[i].id)]], top_k)

\* HybridRetriever._semantic_search: semantic_score = 1 / (1 + distance)
semantic_search(ids, query, top_k) ==
    LET results == vector_store_search(ids, query, top_k) IN
    [i \in 1..Len(results) |->
        WithField(results[i], "semantic_score",
                  (100 * ScoreOne) \div (100 + results[i].distance))]

\* HybridRetriever._bm25_search over the indexed corpus
bm25_search(index, query, top_k) ==
    LET scored == SortByKey([i \in 1..Len(index.ids) |->
                        [key |-> Bm25Score(query, index.ids[i]), id |-> index.ids[i]]])
        top_docs == Take(scored, top_k)
    IN  SelectSeq([i \in 1..Len(top_docs) |->
                        [id |-> top_docs[i].id, bm25_score |-> top_docs[i].key]],
                  LAMBDA r : r.bm25_score > 0)

\* position of an id in a result list, 0 when it is not there
RankOf(results, id) ==
    IF \E i \in 1..Len(results) : results[i].id = id
        THEN CHOOSE i \in 1..Len(results) : results[i].id = id
        ELSE 0

\* variant: the 0-based rank taken as it is, weight / (k + rank)
RrfTermZeroBased(weight, position) ==
    IF position = 0 THEN 0 ELSE (weight * (ScoreOne \div 100)) \div (RrfK + position - 1)

\* weight / (k + rank + 1) for a 0-based rank, i.e. weight / (k + position)
RrfTerm(weight, position) ==
    IF position = 0 THEN 0 ELSE (weight * (ScoreOne \div 100)) \div (RrfK + position)

\* HybridRetriever._reciprocal_rank_fusion
reciprocal_rank_fusion(semantic_results, bm25_results, top_k) ==
    LET firsts == semantic_results
                    \o SelectSeq(bm25_results, LAMBDA r : RankOf(semantic_results, r.id) = 0)
        doc_scores == [i \in 1..Len(firsts) |->
            LET s == RankOf(semantic_results, firsts[i].id)
                b == RankOf(bm25_results, firsts[i].id)
            IN  [key |-> RrfTerm(SemanticWeight, s) + RrfTerm(Bm25Weight, b),
                 result |-> firsts[i],
                 semantic_rank |-> IF s = 0 THEN None ELSE [kind |-> "int", n |-> s],
                 bm25_rank |-> IF b = 0 THEN None ELSE [kind |-> "int", n |-> b]]]
        sorted_docs == Take(SortByKey(doc_scores), top_k)
    IN  [i \in 1..Len(sorted_docs) |->
            WithField(WithField(WithField(sorted_docs[i].result,
                "combined_score", sorted_docs[i].key),
                "semantic_rank", sorted_docs[i].semantic_rank),
                "bm25_rank", sorted_docs[i].bm25_rank)]

\* HybridRetriever._build_bm25_index: the index it leaves in self._bm25
build_bm25_index(ids) == IF ids = <<>> THEN None ELSE [kind |-> "BM25Okapi", ids |-> ids]

\* HybridRetriever.retrieve from the second `if self._bm25 is None` on
retrieve_search(index, ids, query, top_k) ==
    IF index = None
        THEN semantic_search(ids, query, top_k)
        ELSE reciprocal_rank_fusion(semantic_search(ids, query, top_k * 2),
                                    bm25_search(index, query, top_k * 2), top_k)

-----------------------------------------------------------------------------
(* Boosts learned from successful queries.  The modelled words hold none   *)
(* of the LIKE wildcards % and _.                                          *)

Occurrences(chunk_ids, chunk_id) ==
    Cardinality({i \in 1..Len(chunk_ids) : chunk_ids[i] = chunk_id})

MinWordLen == 3      \* a lookup word must be longer than this
LikeLimit == 5
LearnedBoost == 50000

\* str.split(): the words between the blanks
RECURSIVE Split(_)
Split(s) ==
    IF s = <<>> THEN <<>>
    ELSE IF s[1] = " " THEN Split(Tail(s))
    ELSE LET stops == {i \in 1..Len(s) : s[i] = " "}
             n == IF stops = {} THEN Len(s) + 1
                  ELSE CHOOSE i \in stops : \A j \in stops : i <= j
         IN  <<SubSeq(s, 1, n - 1)>> \o Split(SubSeq(s, n, Len(s)))

\* text LIKE '%word%' of SQLite: a substring, ASCII letters compared without case
SqlLikeContains(text, word) ==
    \E i \in 1..(Len(text) - Len(word) + 1) :
        SqlLower(SubSeq(text, i, i + Len(word) - 1)) = SqlLower(word)

\* SELECT ... WHERE LOWER(original_query) LIKE ? ORDER BY positive_count DESC LIMIT 5
MappingsLike(rows, word) ==
    LET hits == SelectSeq(rows, LAMBDA r : SqlLikeContains(SqlLower(r.original_query), word))
        ordered == SortByKey([i \in 1..Len(hits) |->
                                [key |-> hits[i].positive_count, row |-> hits[i]]])
    IN  Take([i \in 1..Len(ordered) |->
                [query |-> ordered[i].row.original_query,
                 chunk_ids |-> JsonLoads(ordered[i].row.successful_chunks),
                 positive_count |-> ordered[i].row.positive_count]], LikeLimit)

RECURSIVE MappingsForWords(_, _)
MappingsForWords(rows, words) ==
    IF words = <<>> THEN <<>>
    ELSE (IF Len(Head(words)) > MinWordLen THEN MappingsLike(rows, Head(words)) ELSE <<>>)
            \o MappingsForWords(rows, Tail(words))

\* the first result of every query text
Deduplicate(results) ==
    SelectSeq([i \in 1..Len(results) |->
                    [item |-> results[i],
                     first |-> \A j \in 1..(i - 1) : results[j].query # results[i].query]],
              LAMBDA e : e.first)

get_similar_successful_queries(rows, query) ==
    LET unique == Deduplicate(MappingsForWords(rows, Split(PyLower(query))))
    IN  [i \in 1..Len(unique) |-> unique[i].item]

RECURSIVE BoostSum(_, _)
BoostSum(similar, chunk_id) ==
    IF similar = <<>> THEN 0
    ELSE LearnedBoost * Head(similar).positive_count
            * Occurrences(Head(similar).chunk_ids, chunk_id)
         + BoostSum(Tail(similar), chunk_id)

\* get_learned_chunk_boosts: the dict chunk_id -> boost
get_learned_chunk_boosts(rows, query) ==
    LET similar == get_similar_successful_queries(rows, query)
        ids == UNION {{similar[i].chunk_ids[j] : j \in 1..Len(similar[i].chunk_ids)}
                        : i \in 1..Len(similar)}
    IN  [c \in ids |-> BoostSum(similar, c)]

-----------------------------------------------------------------------------
(* The history of calls: per chunk id the adjust_chunk_score calls of each *)
(* kind, per query hash the flag_query_if_needed calls that returned a     *)
(* reason and the learn_successful_query calls with the last chunk list,   *)
(* per cache key the hits on the row now stored under it.                  *)

NoCalls ==
    [adj |-> [k \in {} |-> 0], reasons |-> [k \in {} |-> 0],
     learn |-> [k \in {} |-> 0], hits |-> [k \in {} |-> 0]]

Put(f, k, v) == [x \in DOMAIN f \cup {k} |-> IF x = k THEN v ELSE f[x]]

AdjCalls(f, chunk_id) == IF chunk_id \in DOMAIN f THEN f[chunk_id] ELSE [p |-> 0, n |-> 0]

\* one adjust_chunk_score call noted for every member of the list
NoteAdjust(f, chunk_ids, is_positive) ==
    [c \in DOMAIN f \cup {chunk_ids[i] : i \in 1..Len(chunk_ids)} |->
        [p |-> AdjCalls(f, c).p + (IF is_positive THEN Occurrences(chunk_ids, c) ELSE 0),
         n |-> AdjCalls(f, c).n + (IF is_positive THEN 0 ELSE Occurrences(chunk_ids, c))]]

ReasonCalls(f, query_hash) == IF query_hash \in DOMAIN f THEN f[query_hash] ELSE 0

NoteReason(f, query, reason) ==
    IF reason = None THEN f
    ELSE Put(f, learner_hash_query(query), ReasonCalls(f, learner_hash_query(query)) + 1)

NoteLearn(f, query, chunk_ids) ==
    LET h == learner_hash_query(query) IN
    Put(f, h, [n |-> (IF h \in DOMAIN f THEN f[h].n ELSE 0) + 1, last |-> chunk_ids])

\* the hit counts of the rows that are still stored
KeepStored(f, rows) == [k \in DOMAIN f \cap {r.query_hash : r \in rows} |-> f[k]]

-----------------------------------------------------------------------------
(* The state after construction: _init_db creates empty tables             *)

Threads == {1, 2}

IdleThread == [pc |-> "idle"]

\* the chat front end before its first request
NoChat == [requests |-> [t \in Threads |-> IdleThread], query_logs |-> <<>>, generated |-> <<>>]

\* a caller of the learner between calls, with the calls it has made so far
IdleCaller == [pc |-> "idle", log |-> <<>>]

Init ==
    /\ chunk_adjustments = {}
    /\ flagged_queries = {}
    /\ query_mappings = <<>>
    /\ response_cache = {}
    /\ now = 0
    /\ ret = [op |-> "init"]
    /\ flagHistory = {}
    /\ history = NoCalls
    /\ threads = [t \in Threads |-> IdleCaller]
    /\ bm25 = None
    /\ store = <<>>
    /\ builds = 0
    /\ retrievers = [t \in Threads |-> IdleThread]
    /\ chat = NoChat

-----------------------------------------------------------------------------
(* Calls of the ledger, one at a time                                      *)

\* the guards that keep the counter columns within MaxCount
FlagCountBelowMax(query) ==
    \A r \in FlagRow(flagged_queries, learner_hash_query(query)) : r.negative_count < MaxCount

AdjCountBelowMax(chunk_ids) ==
    \A i \in 1..Len(chunk_ids) : \A r \in AdjRow(chunk_adjustments, chunk_ids[i]) :
        r.positive_count + r.negative_count + Len(chunk_ids) <= MaxCount

MappingCountBelowMax(query) ==
    \A i \in 1..Len(query_mappings) :
        query_mappings[i].query_hash = learner_hash_query(query)
            => query_mappings[i].positive_count < MaxCount

Touched(query, op, threshold) == flagHistory \cup {[op |-> op, t |-> threshold]}

FlagQueryIfNeeded(query, threshold) ==
    /\ FlagCountBelowMax(query)
    /\ LET res == flag_query_if_needed(flagged_queries, query, threshold) IN
        /\ flagged_queries' = res.rows
        /\ ret' = [op |-> "flag_query_if_needed", query |-> query,
                   threshold |-> threshold, reason |-> res.reason]
    /\ flagHistory' = Touched(query, "flag", threshold)
    /\ history' = [history EXCEPT !.reasons = NoteReason(@, query,
                    flag_query_if_needed(flagged_queries, query, threshold).reason)]
    /\ UNCHANGED <<chunk_adjustments, query_mappings, response_cache, now>>
    /\ UNCHANGED <<concVars, chatVars, retrVars>>

UpdateFlagStatus(query, negative_count, threshold) ==
    /\ flagged_queries' = update_flag_status(flagged_queries, query, negative_count, threshold)
    /\ ret' = [op |-> "update_flag_status", query |-> query,
               negative_count |-> negative_count, threshold |-> threshold]
    /\ flagHistory' = Touched(query, "update", 0)
    /\ UNCHANGED <<chunk_adjustments, query_mappings, response_cache, now, history>>
    /\ UNCHANGED <<concVars, chatVars, retrVars>>

ResolveFlag(query, resolution) ==
    /\ flagged_queries' = resolve_flag(flagged_queries, query, resolution)
    /\ ret' = [op |-> "resolve_flag", query |-> query, resolution |-> resolution]
    /\ flagHistory' = Touched(query, "resolve", 0)
    /\ UNCHANGED <<chunk_adjustments, query_mappings, response_cache, now, history>>
    /\ UNCHANGED <<concVars, chatVars, retrVars>>

ProcessFeedback(query, is_positive, chunk_ids, has_cache) ==
    /\ AdjCountBelowMax(chunk_ids)
    /\ is_positive => MappingCountBelowMax(query)
    /\ ~is_positive => FlagCountBelowMax(query)
    /\ LET res == process_feedback(query, is_positive, chunk_ids, has_cache) IN
        /\ chunk_adjustments' = res.adj
        /\ query_mappings' = res.maps
        /\ flagged_queries' = res.flags
        /\ response_cache' = res.cache
        /\ ret' = [op |-> "process_feedback", query |-> query, is_positive |-> is_positive,
                   chunk_ids |-> chunk_ids, has_cache |-> has_cache, actions |-> res.actions]
        /\ history' = [adj |-> NoteAdjust(history.adj, chunk_ids, is_positive),
                     reasons |-> NoteReason(history.reasons, query, res.actions.flag_reason),
                     learn |-> IF is_positive THEN NoteLearn(history.learn, query, chunk_ids)
                               ELSE history.learn,
                     hits |-> KeepStored(history.hits, res.cache)]
    /\ flagHistory' = IF is_positive THEN flagHistory
                      ELSE Touched(query, "feedback", DefaultThreshold)
    /\ UNCHANGED <<now, concVars, chatVars, retrVars>>

FlagQueries == {QHi, QHiUpper}
FlagChunkLists == {<<>>}

NextFlag ==
    \/ \E q \in FlagQueries, t \in Thresholds : FlagQueryIfNeeded(q, t)
    \/ \E q \in FlagQueries, n \in 1..MaxCount, t \in Thresholds : UpdateFlagStatus(q, n, t)
    \/ \E q \in FlagQueries, r \in Resolutions : ResolveFlag(q, r)
    \/ \E q \in FlagQueries, p \in BOOLEAN, ids \in FlagChunkLists :
            ProcessFeedback(q, p, ids, TRUE)

SpecFlag == Init /\ [][NextFlag]_vars

-----------------------------------------------------------------------------
(* Calls of the response cache, one at a time                              *)

MaxHits == 2         \* hit_count is driven no higher than this

SCold == [temperature |-> 2]
SHot == [top_k |-> 5, use_expansion |-> TRUE, use_hybrid |-> TRUE, use_hyde |-> FALSE,
         temperature |-> 9]
STop10 == [top_k |-> 10]

CacheQueries == {QHi, QHiPadded}
CacheSettings == {SCold, SHot, STop10}
InvalidateQueries == {QHi, QHiPadded, QAccent}
InvalidateSettings == {SCold, STop10}
Payloads == {[answer |-> "A1", sources |-> <<>>],
             [answer |-> "A2", sources |-> <<[title |-> "T", author |-> "A", url |-> "U"]>>]}
FeedbackQueries == {QHi}

HitCountBelowMax(query, settings) ==
    \A r \in CacheRow(response_cache, cache_hash_query(query, settings)) :
        r.hit_count < MaxHits

CacheGet(query, settings) ==
    /\ HitCountBelowMax(query, settings)
    /\ LET res == cache_get(response_cache, query, settings, now) IN
        /\ response_cache' = res.rows
        /\ ret' = [op |-> "get", query |-> query, settings |-> settings, at |-> now,
                   found |-> res.found, result |-> res.result,
                   prev |-> IF ret.op = "set" THEN ret ELSE None]
        /\ history' = [history EXCEPT !.hits =
                IF res.result = None THEN KeepStored(@, res.rows)
                ELSE Put(@, cache_hash_query(query, settings),
                         @[cache_hash_query(query, settings)] + 1)]
    /\ UNCHANGED <<ledgerVars, now, flagHistory, concVars, chatVars, retrVars>>

CacheSet(query, settings, response, sources) ==
    /\ response_cache' = cache_set(response_cache, query, settings, response, sources, now)
    /\ ret' = [op |-> "set", query |-> query, settings |-> settings, at |-> now,
               response |-> response, sources |-> sources]
    /\ history' = [history EXCEPT !.hits = Put(@, cache_hash_query(query, settings), 0)]
    /\ UNCHANGED <<ledgerVars, now, flagHistory, concVars, chatVars, retrVars>>

\* ResponseCache.clear
CacheClear ==
    /\ response_cache # {}
    /\ response_cache' = {}
    /\ ret' = [op |-> "clear"]
    /\ history' = [history EXCEPT !.hits = KeepStored(@, {})]
    /\ UNCHANGED <<ledgerVars, now, flagHistory, concVars, chatVars, retrVars>>

CacheClearExpired ==
    /\ LET res == cache_clear_expired(response_cache, now) IN
        /\ response_cache' = res.rows
        /\ ret' = [op |-> "clear_expired", deleted |-> res.deleted]
        /\ history' = [history EXCEPT !.hits = KeepStored(@, res.rows)]
    /\ UNCHANGED <<ledgerVars, now, flagHistory, concVars, chatVars, retrVars>>

\* an hour passes
Tick ==
    /\ now < MaxTime
    /\ now' = now + 1
    /\ UNCHANGED <<ledgerVars, response_cache, ret, flagHistory, history, concVars, chatVars, retrVars>>

NextCache ==
    \/ \E q \in CacheQueries, s \in CacheSettings : CacheGet(q, s)
    \/ \E q \in CacheQueries, s \in CacheSettings, p \in Payloads :
            CacheSet(q, s, p.answer, p.sources)
    \/ CacheClear
    \/ CacheClearExpired
    \/ Tick

SpecCache == Init /\ [][NextCache]_vars

\* the cache with negative feedback on its queries
NextInvalidate ==
    \/ \E q \in InvalidateQueries, s \in InvalidateSettings : CacheGet(q, s)
    \/ \E q \in InvalidateQueries, s \in InvalidateSettings :
            CacheSet(q, s, "A1", <<>>)
    \/ \E q \in FeedbackQueries : ProcessFeedback(q, FALSE, <<>>, TRUE)

SpecInvalidate == Init /\ [][NextInvalidate]_vars

\* feedback events of both kinds on two queries, with a cache that holds
\* answers to them
FrameQueries == {QHi, QYo}
FrameChunkLists == {<<"c1">>, <<"c2", "c1">>}

NextFeedback ==
    \/ \E q \in FrameQueries, ids \in FrameChunkLists : ProcessFeedback(q, TRUE, ids, TRUE)
    \/ \E q \in FrameQueries, ids \in FrameChunkLists, c \in BOOLEAN :
            ProcessFeedback(q, FALSE, ids, c)
    \/ \E q \in FrameQueries : CacheSet(q, SCold, "A1", <<>>)

SpecFeedback == Init /\ [][NextFeedback]_vars

-----------------------------------------------------------------------------
(* Learning successful queries and reading the boosts back                 *)

QHiyo == <<"h", "i", "y", "o">>
QHiyoUpper == <<"H", "i", "y", "o">>
QHiyAccent == <<"h", "i", "y", "U+00C9">>
QHiyAccentLower == <<"h", "i", "y", "U+00E9">>
QHiyoHi == <<"h", "i", "y", "o", " ", "h", "i">>
QHiyoh == <<"h", "i", "y", "o", "h">>
QHiyoIyoh == <<"h", "i", "y", "o", " ", "i", "y", "o", "h">>

LearnQueries == {QHiyo, QHiyoUpper, QHiyAccent, QHiyoh}
LearnChunkLists == {<<"c1">>, <<"c2">>}
LookupQueries == {QHiyoHi, QHiyoUpper, QHiyAccentLower, QHi, QHiyoIyoh}

LearnSuccessfulQuery(query, successful_chunk_ids) ==
    /\ MappingCountBelowMax(query)
    /\ query_mappings' = learn_successful_query(query_mappings, query, successful_chunk_ids)
    /\ ret' = [op |-> "learn_successful_query", query |-> query,
               chunk_ids |-> successful_chunk_ids]
    /\ history' = [history EXCEPT !.learn = NoteLearn(@, query, successful_chunk_ids)]
    /\ UNCHANGED <<chunk_adjustments, flagged_queries, response_cache, now, flagHistory>>
    /\ UNCHANGED <<concVars, chatVars, retrVars>>

GetLearnedChunkBoosts(query) ==
    /\ ret' = [op |-> "get_learned_chunk_boosts", query |-> query,
               boosts |-> get_learned_chunk_boosts(query_mappings, query)]
    /\ UNCHANGED <<ledgerVars, response_cache, now, flagHistory, history, concVars, chatVars, retrVars>>

NextLearn ==
    \/ \E q \in LearnQueries, ids \in LearnChunkLists : LearnSuccessfulQuery(q, ids)
    \/ \E q \in LookupQueries : GetLearnedChunkBoosts(q)

SpecLearn == Init /\ [][NextLearn]_vars

-----------------------------------------------------------------------------
(* Calls of the chunk ledger and of the adjustment applier, one at a time  *)

AdjustChunkScore(chunk_id, is_positive) ==
    /\ AdjCountBelowMax(<<chunk_id>>)
    /\ chunk_adjustments' = adjust_chunk_score(chunk_adjustments, chunk_id, is_positive)
    /\ ret' = [op |-> "adjust_chunk_score", chunk_id |-> chunk_id,
               is_positive |-> is_positive]
    /\ history' = [history EXCEPT !.adj = NoteAdjust(@, <<chunk_id>>, is_positive)]
    /\ UNCHANGED <<flagged_queries, query_mappings, response_cache, now, flagHistory>>
    /\ UNCHANGED <<concVars, chatVars, retrVars>>

ApplyAdjustments(results) ==
    /\ ret' = [op |-> "apply_adjustments_to_results", results |-> results,
               out |-> apply_adjustments_to_results(chunk_adjustments, results)]
    /\ UNCHANGED <<ledgerVars, response_cache, now, flagHistory, history, concVars, chatVars, retrVars>>

\* retrieval results as the retrievers shape them: fused (combined_score), dense
\* fallback of the hybrid retriever (semantic_score), basic retriever (score)
ResultPool ==
    {[id |-> c, combined_score |-> b] : c \in ChunkIds, b \in {50000, 950000}}
        \cup {[id |-> "c1", semantic_score |-> 600000], [id |-> "c2", score |-> 800000]}

ResultLists ==
    {<<>>} \cup {<<r>> : r \in ResultPool}
        \cup {l \in {<<r1, r2>> : r1 \in ResultPool, r2 \in ResultPool} : l[1].id # l[2].id}

NextAdj ==
    \/ \E c \in ChunkIds, p \in BOOLEAN : AdjustChunkScore(c, p)
    \/ \E results \in {l \in ResultLists : Len(l) <= MaxResults} : ApplyAdjustments(results)

SpecAdj == Init /\ [][NextAdj]_vars

-----------------------------------------------------------------------------
(* Interleaved calls of the learner.  Every call opens its own connection, *)
(* runs its SELECT outside a transaction, and then writes and commits; a   *)
(* caller is observed after its SELECT and after its commit.               *)

MaxCalls == 2        \* calls made by one caller

ConcChunk == "c1"
ConcQueries == {QHi, QHiUpper}

Logged(t, entry) == Append(threads[t].log, entry)

\* adjust_chunk_score up to cursor.fetchone()
AdjustSelect(t, chunk_id, is_positive) ==
    /\ threads[t].pc = "idle"
    /\ Len(threads[t].log) < MaxCalls
    /\ threads' = [threads EXCEPT ![t] =
            [pc |-> "adjust_selected", chunk_id |-> chunk_id, is_positive |-> is_positive,
             existing |-> AdjRow(chunk_adjustments, chunk_id) # {},
             log |-> threads[t].log]]
    /\ UNCHANGED <<ledgerVars, response_cache, now, ret, flagHistory, history, retrVars, chatVars>>

\* adjust_chunk_score from `if existing:` to conn.close(); the INSERT of a
\* chunk_id that another caller has inserted meanwhile breaks UNIQUE(chunk_id)
AdjustWrite(t) ==
    /\ threads[t].pc = "adjust_selected"
    /\ LET call == threads[t]
           raises == ~call.existing /\ AdjRow(chunk_adjustments, call.chunk_id) # {}
       IN  /\ chunk_adjustments' =
                IF call.existing
                    THEN adjust_update(chunk_adjustments, call.chunk_id, call.is_positive)
                ELSE IF raises THEN chunk_adjustments
                ELSE adjust_insert(chunk_adjustments, call.chunk_id, call.is_positive)
           /\ threads' = [threads EXCEPT ![t] =
                [pc |-> "idle",
                 log |-> Logged(t, [op |-> "adjust_chunk_score",
                                    is_positive |-> call.is_positive,
                                    error |-> IF raises THEN "IntegrityError" ELSE "none"])]]
    /\ UNCHANGED <<flagged_queries, query_mappings, response_cache, now, ret, flagHistory, history>>
    /\ UNCHANGED <<retrVars, chatVars>>

\* flag_query_if_needed up to cursor.fetchone()
FlagSelect(t, query, threshold) ==
    /\ threads[t].pc = "idle"
    /\ Len(threads[t].log) < MaxCalls
    /\ LET found == FlagRow(flagged_queries, learner_hash_query(query)) IN
       threads' = [threads EXCEPT ![t] =
            [pc |-> "flag_selected", query |-> query, threshold |-> threshold,
             row |-> IF found = {} THEN None ELSE CHOOSE r \in found : TRUE,
             log |-> threads[t].log]]
    /\ UNCHANGED <<ledgerVars, response_cache, now, ret, flagHistory, history, retrVars, chatVars>>

\* flag_query_if_needed from `if row:` to the return; the UPDATE stores the
\* count computed from the row read before, the INSERT of a query_hash that
\* another caller has inserted meanwhile breaks UNIQUE(query_hash)
FlagWrite(t) ==
    /\ threads[t].pc = "flag_selected"
    /\ LET call == threads[t]
           h == learner_hash_query(call.query)
           raises == call.row = None /\ FlagRow(flagged_queries, h) # {}
           new_count == call.row.negative_count + 1
       IN  /\ flagged_queries' =
                IF call.row # None THEN flag_update(flagged_queries, h, new_count)
                ELSE IF raises THEN flagged_queries
                ELSE flag_insert(flagged_queries, call.query)
           /\ threads' = [threads EXCEPT ![t] =
                [pc |-> "idle",
                 log |-> Logged(t, [op |-> "flag_query_if_needed",
                        reason |-> IF call.row # None
                                      /\ ShouldReport(new_count, call.threshold, call.row.status)
                                   THEN [kind |-> "Query has", n |-> new_count] ELSE None,
                        error |-> IF raises THEN "IntegrityError" ELSE "none"])]]
    /\ UNCHANGED <<chunk_adjustments, query_mappings, response_cache, now, ret, flagHistory, history>>
    /\ UNCHANGED <<retrVars, chatVars>>

NextConc ==
    \/ \E t \in Threads, p \in BOOLEAN : AdjustSelect(t, ConcChunk, p)
    \/ \E t \in Threads : AdjustWrite(t)
    \/ \E t \in Threads, q \in ConcQueries : FlagSelect(t, q, DefaultThreshold)
    \/ \E t \in Threads : FlagWrite(t)

SpecConc == Init /\ [][NextConc]_vars

-----------------------------------------------------------------------------
(* Retrieval by one HybridRetriever, its callers interleaved, over a       *)
(* corpus store that ingestion fills and empties                           *)

MaxBuilds == 3       \* index builds between two changes of the corpus

RetrieveQueries == {QHi, QYo}
TopKs == {1, 2}

InStore(chunk_id) == \E i \in 1..Len(store) : store[i] = chunk_id

\* the callers in the middle of a retrieve learn that the corpus changed
Unsteadied ==
    [t \in Threads |-> IF retrievers[t].pc = "idle" THEN retrievers[t]
                        ELSE [retrievers[t] EXCEPT !.steady = FALSE]]

\* VectorStore.add_chunks
AddChunks(chunk_id) ==
    /\ ~InStore(chunk_id)
    /\ store' = Append(store, chunk_id)
    /\ builds' = 0
    /\ ret' = [op |-> "add_chunks", chunk_id |-> chunk_id]
    /\ retrievers' = Unsteadied
    /\ UNCHANGED <<ledgerVars, response_cache, now, flagHistory, history, concVars, chatVars, bm25>>

\* VectorStore.delete_by_url
DeleteByUrl(url) ==
    /\ \E i \in 1..Len(store) : UrlOf(store[i]) = url
    /\ store' = SelectSeq(store, LAMBDA c : UrlOf(c) # url)
    /\ builds' = 0
    /\ ret' = [op |-> "delete_by_url", url |-> url]
    /\ retrievers' = Unsteadied
    /\ UNCHANGED <<ledgerVars, response_cache, now, flagHistory, history, concVars, chatVars, bm25>>

\* VectorStore.clear
ClearStore ==
    /\ store # <<>>
    /\ store' = <<>>
    /\ builds' = 0
    /\ ret' = [op |-> "clear_store"]
    /\ retrievers' = Unsteadied
    /\ UNCHANGED <<ledgerVars, response_cache, now, flagHistory, history, concVars, chatVars, bm25>>

\* retrieve up to the first `if self._bm25 is None`
RetrieveEnter(t, query, top_k) ==
    /\ retrievers[t].pc = "idle"
    /\ bm25 = None =>
        builds + Cardinality({u \in Threads : retrievers[u].pc = "build"}) < MaxBuilds
    /\ retrievers' = [retrievers EXCEPT ![t] =
            [pc |-> IF bm25 = None THEN "build" ELSE "search",
             query |-> query, top_k |-> top_k, empty |-> store = <<>>, steady |-> TRUE]]
    /\ UNCHANGED <<ledgerVars, response_cache, now, ret, flagHistory, history, concVars, chatVars>>
    /\ UNCHANGED <<bm25, store, builds>>

\* self._build_bm25_index()
BuildBm25Index(t) ==
    /\ retrievers[t].pc = "build"
    /\ builds' = builds + 1
    /\ bm25' = IF store = <<>> THEN bm25 ELSE build_bm25_index(store)
    /\ retrievers' = [retrievers EXCEPT ![t].pc = "search",
                                        ![t].empty = @ /\ store = <<>>]
    /\ UNCHANGED <<ledgerVars, response_cache, now, ret, flagHistory, history, concVars, chatVars, store>>

\* retrieve from the second `if self._bm25 is None` to its return
RetrieveSearch(t) ==
    /\ retrievers[t].pc = "search"
    /\ ret' = [op |-> "retrieve", query |-> retrievers[t].query,
               top_k |-> retrievers[t].top_k, empty |-> retrievers[t].empty /\ store = <<>>,
               steady |-> retrievers[t].steady,
               store |-> store, fused |-> bm25 # None,
               out |-> retrieve_search(bm25, store, retrievers[t].query,
                                       retrievers[t].top_k)]
    /\ retrievers' = [retrievers EXCEPT ![t] = IdleThread]
    /\ UNCHANGED <<ledgerVars, response_cache, now, flagHistory, history, concVars, chatVars>>
    /\ UNCHANGED <<bm25, store, builds>>

NextRetr ==
    \/ \E c \in ChunkIds : AddChunks(c)
    \/ \E u \in {UrlOf(c) : c \in ChunkIds} : DeleteByUrl(u)
    \/ ClearStore
    \/ \E t \in Threads, q \in RetrieveQueries, k \in TopKs : RetrieveEnter(t, q, k)
    \/ \E t \in Threads : BuildBm25Index(t)
    \/ \E t \in Threads : RetrieveSearch(t)

SpecRetr == Init /\ [][NextRetr]_vars

-----------------------------------------------------------------------------
(* The chat front end: the /chat route and the chat tab look the message   *)
(* up in the cache, run EnhancedRAGChain.query on a miss and store the     *)
(* answer; the feedback buttons hand the response's chunk ids to           *)
(* process_feedback.  Requests of different sessions interleave.           *)

MaxRequests == 2     \* requests that miss the cache

ChatMessages == {QHi, QHiUpper}
ChatExpansions == {QHi, QYo}
ChatCorpus == {"c1"}
ChatThumbs == BOOLEAN
Answer == "A1"

\* the settings dict of the /chat route, with the default top_k of the request
ChatSettings ==
    [top_k |-> DefaultTopK, use_expansion |-> TRUE, use_hybrid |-> TRUE, use_hyde |-> FALSE]

\* HybridRetriever.retrieve with an expanded query for the lexical search
retrieve_expanded(index, ids, query, expanded_query, top_k) ==
    IF index = None
        THEN semantic_search(ids, query, top_k)
        ELSE reciprocal_rank_fusion(semantic_search(ids, query, top_k * 2),
                                    bm25_search(index, expanded_query, top_k * 2), top_k)

InFlight == {t \in Threads : chat.requests[t].pc \notin {"idle", "answered"}}

Stepped(t, step, next) ==
    [chat.requests[t] EXCEPT !.pc = next, !.steps = Append(@, step)]

\* cache.get at the head of the handler: a hit is answered at once
ChatReceive(t, message) ==
    /\ chat.requests[t].pc = "idle"
    /\ HitCountBelowMax(message, ChatSettings)
    /\ LET res == cache_get(response_cache, message, ChatSettings, now) IN
        /\ res.result = None =>
                Len(chat.query_logs) + Cardinality(InFlight) < MaxRequests
        /\ response_cache' = res.rows
        /\ history' = [history EXCEPT !.hits =
                IF res.result = None THEN KeepStored(@, res.rows)
                ELSE Put(@, cache_hash_query(message, ChatSettings),
                         @[cache_hash_query(message, ChatSettings)] + 1)]
        /\ chat' = [chat EXCEPT !.requests[t] =
                IF res.result = None
                    THEN [pc |-> "query_expansion", query |-> message, steps |-> <<>>]
                    ELSE [pc |-> "answered", query |-> message, steps |-> <<>>,
                          answer |-> res.result.answer, cached |-> TRUE,
                          log_id |-> None, chunk_ids |-> <<>>]]
    /\ ret' = [op |-> "chat"]
    /\ UNCHANGED <<ledgerVars, now, flagHistory, concVars, retrVars>>

\* Step 1: query expansion, the expander's answer being any of ChatExpansions
ChatExpand(t, expanded_query) ==
    /\ chat.requests[t].pc = "query_expansion"
    /\ chat' = [chat EXCEPT !.requests[t] =
            WithField(Stepped(t, "query_expansion", "retrieval"),
                      "expanded_query", expanded_query)]
    /\ UNCHANGED <<ledgerVars, response_cache, now, ret, flagHistory, history, concVars, retrVars>>

\* Step 2: hybrid retrieval, building the index when there is none
ChatRetrieve(t) ==
    /\ chat.requests[t].pc = "retrieval"
    /\ bm25 = None => builds < MaxBuilds
    /\ LET index == IF bm25 = None THEN build_bm25_index(store) ELSE bm25 IN
        /\ bm25' = index
        /\ builds' = IF bm25 = None THEN builds + 1 ELSE builds
        /\ chat' = [chat EXCEPT !.requests[t] =
                WithField(Stepped(t, "retrieval", "adjustments"), "chunks",
                          retrieve_expanded(index, store, chat.requests[t].query,
                                            chat.requests[t].expanded_query, DefaultTopK))]
    /\ UNCHANGED <<ledgerVars, response_cache, now, ret, flagHistory, history, concVars>>
    /\ UNCHANGED <<store, retrievers>>

\* Step 2b: feedback-based adjustments, then the chunk ids of the response
ChatAdjust(t) ==
    /\ chat.requests[t].pc = "adjustments"
    /\ LET chunks == apply_adjustments_to_results(chunk_adjustments, chat.requests[t].chunks)
       IN chat' = [chat EXCEPT !.requests[t] =
            [pc |-> "prompt_build", query |-> chat.requests[t].query,
             steps |-> Append(chat.requests[t].steps, "adjustments"),
             chunk_ids |-> [i \in 1..Len(chunks) |-> chunks[i].id]]]
    /\ UNCHANGED <<ledgerVars, response_cache, now, ret, flagHistory, history, concVars, retrVars>>

\* Step 3: the prompt
ChatPrompt(t) ==
    /\ chat.requests[t].pc = "prompt_build"
    /\ chat' = [chat EXCEPT !.requests[t] = Stepped(t, "prompt_build", "llm_generation")]
    /\ UNCHANGED <<ledgerVars, response_cache, now, ret, flagHistory, history, concVars, retrVars>>

\* Step 4: one call of the generator
ChatGenerate(t) ==
    /\ chat.requests[t].pc = "llm_generation"
    /\ chat' = [chat EXCEPT
            !.requests[t] = WithField(Stepped(t, "llm_generation", "log"), "answer", Answer),
            !.generated = Append(@, chat.requests[t].query)]
    /\ UNCHANGED <<ledgerVars, response_cache, now, ret, flagHistory, history, concVars, retrVars>>

\* Step 5: the analytics log row, whose rowid is the log_id
ChatLog(t) ==
    /\ chat.requests[t].pc = "log"
    /\ chat' = [chat EXCEPT
            !.requests[t] = WithField(Stepped(t, "log", "cache_set"), "log_id",
                                      [kind |-> "int", n |-> Len(chat.query_logs) + 1]),
            !.query_logs = Append(@, chat.requests[t].query)]
    /\ UNCHANGED <<ledgerVars, response_cache, now, ret, flagHistory, history, concVars, retrVars>>

\* back in the handler: cache.set, then the response
ChatCacheSet(t) ==
    /\ chat.requests[t].pc = "cache_set"
    /\ response_cache' = cache_set(response_cache, chat.requests[t].query, ChatSettings,
                                   chat.requests[t].answer, <<>>, now)
    /\ history' = [history EXCEPT
            !.hits = Put(@, cache_hash_query(chat.requests[t].query, ChatSettings), 0)]
    /\ chat' = [chat EXCEPT !.requests[t] =
            WithField(Stepped(t, "cache_set", "answered"), "cached", FALSE)]
    /\ UNCHANGED <<ledgerVars, now, ret, flagHistory, concVars, retrVars>>

\* a thumb on the response: process_feedback with the response's chunk ids
SubmitFeedback(t, is_positive) ==
    /\ chat.requests[t].pc = "answered"
    /\ LET query == chat.requests[t].query
           chunk_ids == chat.requests[t].chunk_ids
           res == process_feedback(query, is_positive, chunk_ids, TRUE)
       IN
        /\ AdjCountBelowMax(chunk_ids)
        /\ is_positive => MappingCountBelowMax(query)
        /\ ~is_positive => FlagCountBelowMax(query)
        /\ chunk_adjustments' = res.adj
        /\ query_mappings' = res.maps
        /\ flagged_queries' = res.flags
        /\ response_cache' = res.cache
        /\ ret' = [op |-> "submit_feedback", query |-> query, is_positive |-> is_positive,
                   chunk_ids |-> chunk_ids, cached |-> chat.requests[t].cached,
                   before |-> query_mappings]
        /\ history' = [adj |-> NoteAdjust(history.adj, chunk_ids, is_positive),
                     reasons |-> NoteReason(history.reasons, query, res.actions.flag_reason),
                     learn |-> IF is_positive THEN NoteLearn(history.learn, query, chunk_ids)
                               ELSE history.learn,
                     hits |-> KeepStored(history.hits, res.cache)]
        /\ flagHistory' = IF is_positive THEN flagHistory
                          ELSE Touched(query, "feedback", DefaultThreshold)
    /\ chat' = [chat EXCEPT !.requests[t] = IdleThread]
    /\ UNCHANGED <<now, concVars, retrVars>>

\* the response is left without feedback
ChatNext(t) ==
    /\ chat.requests[t].pc = "answered"
    /\ chat' = [chat EXCEPT !.requests[t] = IdleThread]
    /\ UNCHANGED <<ledgerVars, response_cache, now, ret, flagHistory, history, concVars, retrVars>>

\* VectorStore.add_chunks by the ingestion
ChatIngest(chunk_id) ==
    /\ ~InStore(chunk_id)
    /\ store' = Append(store, chunk_id)
    /\ builds' = 0
    /\ UNCHANGED <<ledgerVars, response_cache, now, ret, flagHistory, history, concVars, chatVars>>
    /\ UNCHANGED <<bm25, retrievers>>

NextChat ==
    \/ \E t \in Threads, m \in ChatMessages : ChatReceive(t, m)
    \/ \E t \in Threads, e \in ChatExpansions : ChatExpand(t, e)
    \/ \E t \in Threads : ChatRetrieve(t)
    \/ \E t \in Threads : ChatAdjust(t)
    \/ \E t \in Threads : ChatPrompt(t)
    \/ \E t \in Threads : ChatGenerate(t)
    \/ \E t \in Threads : ChatLog(t)
    \/ \E t \in Threads : ChatCacheSet(t)
    \/ \E t \in Threads, p \in ChatThumbs : SubmitFeedback(t, p)
    \/ \E t \in Threads : ChatNext(t)
    \/ \E c \in ChatCorpus : ChatIngest(c)

SpecChat == Init /\ [][NextChat]_vars

-----------------------------------------------------------------------------
(* process_feedback while one store operation fails: the first call of the *)
(* operation named raises sqlite3.Error before it commits anything.        *)

Faults == {"invalidate", "adjust", "flag", "learn"}

\* process_feedback with the fault: the tables afterwards, whether the
\* operation was reached and failed, and whether the error left the call
process_feedback_failing(query, is_positive, chunk_ids, fault) ==
    LET ok == process_feedback(query, is_positive, chunk_ids, TRUE)
        untouched == [adj |-> chunk_adjustments, maps |-> query_mappings,
                      flags |-> flagged_queries, cache |-> response_cache]
        normal == [adj |-> ok.adj, maps |-> ok.maps, flags |-> ok.flags, cache |-> ok.cache,
                   occurred |-> FALSE, raised |-> FALSE, actions |-> ok.actions]
        raising(t) == [adj |-> t.adj, maps |-> t.maps, flags |-> t.flags, cache |-> t.cache,
                       occurred |-> TRUE, raised |-> TRUE, actions |-> None]
    IN  IF is_positive
        THEN IF fault = "adjust" /\ chunk_ids # <<>> THEN raising(untouched)
             ELSE IF fault = "learn" THEN raising([untouched EXCEPT !.adj = ok.adj])
             ELSE normal
        ELSE IF fault = "invalidate"
                \* the except clause of invalidate_cache_for_query: return False
                THEN [normal EXCEPT !.cache = response_cache, !.occurred = TRUE,
                                    !.actions.cache_invalidated = FALSE]
             ELSE IF fault = "adjust" /\ chunk_ids # <<>>
                THEN raising([untouched EXCEPT !.cache = ok.cache])
             ELSE IF fault = "flag"
                THEN raising([untouched EXCEPT !.cache = ok.cache, !.adj = ok.adj])
             ELSE normal

ProcessFeedbackFailing(query, is_positive, chunk_ids, fault) ==
    /\ AdjCountBelowMax(chunk_ids)
    /\ is_positive => MappingCountBelowMax(query)
    /\ ~is_positive => FlagCountBelowMax(query)
    /\ LET res == process_feedback_failing(query, is_positive, chunk_ids, fault)
           adjusted == ~(fault = "adjust" /\ chunk_ids # <<>>)
       IN
        /\ chunk_adjustments' = res.adj
        /\ query_mappings' = res.maps
        /\ flagged_queries' = res.flags
        /\ response_cache' = res.cache
        /\ ret' = [op |-> "process_feedback", query |-> query, is_positive |-> is_positive,
                   chunk_ids |-> chunk_ids, has_cache |-> TRUE, fault |-> fault,
                   occurred |-> res.occurred, raised |-> res.raised,
                   actions |-> res.actions]
        /\ history' = [adj |-> IF adjusted
                                THEN NoteAdjust(history.adj, chunk_ids, is_positive)
                                ELSE history.adj,
                     reasons |-> IF res.raised THEN history.reasons
                                 ELSE NoteReason(history.reasons, query,
                                                 res.actions.flag_reason),
                     learn |-> IF is_positive /\ ~res.raised
                                THEN NoteLearn(history.learn, query, chunk_ids)
                                ELSE history.learn,
                     hits |-> KeepStored(history.hits, res.cache)]
        /\ flagHistory' = IF is_positive \/ res.raised THEN flagHistory
                          ELSE Touched(query, "feedback", DefaultThreshold)
    /\ UNCHANGED <<now, concVars, chatVars, retrVars>>

FaultChunkLists == {<<>>, <<"c1">>}

NextFail ==
    \/ \E q \in FeedbackQueries, p \in BOOLEAN, ids \in FaultChunkLists, f \in Faults :
            ProcessFeedbackFailing(q, p, ids, f)
    \/ \E q \in FeedbackQueries, p \in BOOLEAN, ids \in FaultChunkLists :
            ProcessFeedback(q, p, ids, TRUE)
    \/ \E q \in FeedbackQueries : CacheSet(q, SCold, "A1", <<>>)

SpecFail == Init /\ [][NextFail]_vars

-----------------------------------------------------------------------------
(* Properties of the flagged-query table (SpecFlag)                        *)

\* C1: when the only calls so far are flag_query_if_needed calls with one
\* threshold t, a call that leaves the count below t returns no reason and the
\* call that brings the count to t returns a reason.
C1_FlagThresholdCrossing ==
    (ret.op = "flag_query_if_needed"
        /\ flagHistory = {[op |-> "flag", t |-> ret.threshold]})
    => \A r \in FlagRow(flagged_queries, learner_hash_query(ret.query)) :
        /\ r.negative_count < ret.threshold => ret.reason = None
        /\ r.negative_count = ret.threshold => ret.reason # None

\* C2: when the only calls so far are negative process_feedback events, a row
\* is in status monitoring below the threshold and is listed as pending once
\* its negative count has reached the threshold.
C2_FlagPromotion ==
    flagHistory \subseteq {[op |-> "feedback", t |-> DefaultThreshold]}
    => \A r \in flagged_queries :
        /\ r.negative_count < DefaultThreshold => r.status = "monitoring"
        /\ r.negative_count >= DefaultThreshold
            => r \in get_flagged_queries(flagged_queries, "pending")

-----------------------------------------------------------------------------
(* Properties of the response cache (SpecCache, SpecInvalidate)            *)

\* C6: right after a negative process_feedback(q, ..., cache) returns, no row
\* is stored under any key whose query normalises like q, and get on such a
\* key is a miss.
C6_NegativeFeedbackInvalidates ==
    (ret.op = "process_feedback" /\ ~ret.is_positive /\ ret.has_cache)
    => \A q2 \in InvalidateQueries, s \in InvalidateSettings :
        Normalize(q2) = Normalize(ret.query)
        => /\ CacheRow(response_cache, cache_hash_query(q2, s)) = {}
           /\ cache_get(response_cache, q2, s, now).result = None

\* C7: a get that finds a row aged at least the TTL returns a miss and leaves
\* no row under that key; a get that finds a younger row returns its answer
\* and sources and keeps the row, with one more hit.
C7_LazyExpiry ==
    (ret.op = "get" /\ ret.found # None)
    => LET row == ret.found
           stored == CacheRow(response_cache, cache_hash_query(ret.query, ret.settings))
       IN  IF ret.at - row.created_at >= TtlHours
           THEN ret.result = None /\ stored = {}
           ELSE /\ ret.result = [answer |-> row.response,
                                 sources |-> JsonLoads(row.sources), cached |-> TRUE]
                /\ stored = {[row EXCEPT !.hit_count = @ + 1]}

C7_ExpiredRowRead ==
    /\ ret.op = "get"
    /\ ret.found # None
    /\ ret.at - ret.found.created_at >= TtlHours
    /\ ret.result = None

\* the setting the key uses when the caller gives none
SettingDefault(name) ==
    CASE name = "top_k" -> 5
      [] name = "use_expansion" -> TRUE
      [] name = "use_hybrid" -> TRUE
      [] name = "use_hyde" -> FALSE

SameLookup(q1, s1, q2, s2) ==
    /\ Normalize(q1) = Normalize(q2)
    /\ \A name \in {"top_k", "use_expansion", "use_hybrid", "use_hyde"} :
        SettingGet(s1, name, SettingDefault(name)) = SettingGet(s2, name, SettingDefault(name))

\* C8: a get that directly follows a set, inside the TTL, returns exactly the
\* answer and sources of that set when the two calls agree on the normalised
\* query and on the four key settings; otherwise it does not serve the row of
\* that set, and it is a miss when nothing is stored under its own key.
C8_CacheKey ==
    (ret.op = "get" /\ ret.prev # None /\ ret.at - ret.prev.at < TtlHours)
    => IF SameLookup(ret.prev.query, ret.prev.settings, ret.query, ret.settings)
       THEN ret.result = [answer |-> ret.prev.response, sources |-> ret.prev.sources,
                          cached |-> TRUE]
       ELSE IF ret.found = None
            THEN ret.result = None
            ELSE ~SameLookup(ret.found.query, ret.found.settings_hash,
                             ret.prev.query, ret.prev.settings)

\* C8 as stated: whenever the two calls disagree on the normalised query or on
\* a key setting the get is a miss, whatever else the cache holds.
C8_MissWheneverKeysDiffer ==
    (ret.op = "get" /\ ret.prev # None /\ ret.at - ret.prev.at < TtlHours)
    => IF SameLookup(ret.prev.query, ret.prev.settings, ret.query, ret.settings)
       THEN ret.result = [answer |-> ret.prev.response, sources |-> ret.prev.sources,
                          cached |-> TRUE]
       ELSE ret.result = None

C8_HitAcrossSpellingAndTemperature ==
    /\ ret.op = "get"
    /\ ret.prev # None
    /\ ret.prev.query # ret.query
    /\ "temperature" \in DOMAIN ret.prev.settings
    /\ "temperature" \in DOMAIN ret.settings
    /\ ret.prev.settings.temperature # ret.settings.temperature
    /\ ret.result # None
    /\ ret.result.answer = ret.prev.response

-----------------------------------------------------------------------------
(* Properties of the adjustment applier (SpecAdj)                          *)

\* the score a retriever gave a result: fused, or dense-only
RetrievedScore(result) ==
    IF "combined_score" \in DOMAIN result THEN result.combined_score
    ELSE IF "semantic_score" \in DOMAIN result THEN result.semantic_score
    ELSE result.score

\* the cumulative delta the ledger holds for a chunk, 0 when it has no row
LedgerDelta(chunk_id) ==
    IF \E r \in chunk_adjustments : r.chunk_id = chunk_id
        THEN (CHOOSE r \in chunk_adjustments : r.chunk_id = chunk_id).score_adjustment
        ELSE 0

Clamp01(x) == IF x < 0 THEN 0 ELSE IF x > ScoreOne THEN ScoreOne ELSE x

\* C9: every input result comes back carrying had_adjustment and an
\* adjusted_score equal to clamp(0, 1, base + delta), whatever the ledger holds.
C9_AdjustedScoreOnEveryResult ==
    ret.op = "apply_adjustments_to_results"
    => \A i \in 1..Len(ret.results) : \E j \in 1..Len(ret.out) :
        /\ ret.out[j].id = ret.results[i].id
        /\ "had_adjustment" \in DOMAIN ret.out[j]
        /\ "adjusted_score" \in DOMAIN ret.out[j]
        /\ ret.out[j].adjusted_score
            = Clamp01(RetrievedScore(ret.results[i]) + LedgerDelta(ret.results[i].id))

\* C10: a chunk that has a ledger row gets an adjusted_score within [0, 1].
C10_AdjustmentClamp ==
    ret.op = "apply_adjustments_to_results"
    => \A j \in 1..Len(ret.out) :
        (\E r \in chunk_adjustments : r.chunk_id = ret.out[j].id)
        => /\ "adjusted_score" \in DOMAIN ret.out[j]
           /\ ret.out[j].adjusted_score >= 0
           /\ ret.out[j].adjusted_score <= ScoreOne

C10_ClampedAtBothEnds ==
    /\ ret.op = "apply_adjustments_to_results"
    /\ \E i \in 1..Len(ret.results) :
        RetrievedScore(ret.results[i]) + LedgerDelta(ret.results[i].id) > ScoreOne
    /\ \E i \in 1..Len(ret.results) :
        /\ LedgerDelta(ret.results[i].id) < 0
        /\ RetrievedScore(ret.results[i]) + LedgerDelta(ret.results[i].id) < 0

-----------------------------------------------------------------------------
(* Properties of interleaved calls (SpecConc)                              *)

Quiescent == \A t \in Threads : threads[t].pc = "idle"

\* the completed calls of one operation, each named by caller and position
CallsOf(op) ==
    {<<t, i>> \in Threads \X (1..MaxCalls + 1) :
        i <= Len(threads[t].log) /\ threads[t].log[i].op = op}

Failed(calls) == {c \in calls : threads[c[1]].log[c[2]].error # "none"}

Positive(calls) == {c \in calls : threads[c[1]].log[c[2]].is_positive}

\* C3: once the interleaved adjust_chunk_score calls for one chunk id have all
\* completed, none has raised and the chunk's row counts every one of them.
C3_ConcurrentAdjustments ==
    LET calls == CallsOf("adjust_chunk_score")
        pos == Cardinality(Positive(calls))
        neg == Cardinality(calls) - pos
    IN  (Quiescent /\ calls # {})
        => /\ Failed(calls) = {}
           /\ AdjRow(chunk_adjustments, ConcChunk)
                = {[chunk_id |-> ConcChunk,
                    score_adjustment |-> pos * BoostDelta - neg * PenaltyDelta,
                    positive_count |-> pos, negative_count |-> neg]}

\* C4: once n interleaved flag_query_if_needed calls for one normalised query
\* have all completed, none has raised, the table holds exactly one row for
\* the query and its negative_count is n.
C4_ConcurrentFlagging ==
    LET calls == CallsOf("flag_query_if_needed")
        rows == FlagRow(flagged_queries, learner_hash_query(QHi))
    IN  (Quiescent /\ calls # {})
        => /\ Failed(calls) = {}
           /\ Cardinality(rows) = 1
           /\ \A r \in rows : r.negative_count = Cardinality(calls)

\* the second way to miss a call: nothing raises and yet an increment is lost
NoLostIncrement ==
    LET calls == CallsOf("flag_query_if_needed")
        rows == FlagRow(flagged_queries, learner_hash_query(QHi))
    IN  (Quiescent /\ calls # {} /\ Failed(calls) = {})
        => \A r \in rows : r.negative_count = Cardinality(calls)

-----------------------------------------------------------------------------
(* Properties of the hybrid retriever (SpecRetr)                           *)

\* C5: while the corpus is unchanged, _build_bm25_index runs at most once,
\* however many retrieve calls arrive and however they interleave.
C5_BuildOnce == builds <= 1

-----------------------------------------------------------------------------
(* Properties of the chunk ledger (SpecAdj)                                *)

\* C11: a chunk id that was never referenced has no row and reads as delta 0;
\* a referenced one has exactly one row, whose counts are the numbers of
\* positive and negative calls and whose delta is 0.1 * p - 0.15 * n.
C11_LedgerAccumulation ==
    \A c \in ChunkIds :
        LET made == AdjCalls(history.adj, c) IN
        IF made.p + made.n = 0
        THEN /\ AdjRow(chunk_adjustments, c) = {}
             /\ get_chunk_adjustment(chunk_adjustments, c) = 0
        ELSE /\ AdjRow(chunk_adjustments, c)
                    = {[chunk_id |-> c,
                        score_adjustment |-> made.p * BoostDelta - made.n * PenaltyDelta,
                        positive_count |-> made.p, negative_count |-> made.n]}
             /\ get_chunk_adjustment(chunk_adjustments, c)
                    = made.p * BoostDelta - made.n * PenaltyDelta

C11_OnePositiveOneNegative ==
    /\ ret.op = "adjust_chunk_score"
    /\ ~ret.is_positive
    /\ AdjCalls(history.adj, ret.chunk_id) = [p |-> 1, n |-> 1]
    /\ get_chunk_adjustment(chunk_adjustments, ret.chunk_id) < 0
    /\ \E c \in ChunkIds : AdjCalls(history.adj, c) = [p |-> 0, n |-> 0]

-----------------------------------------------------------------------------
(* Properties of notification and of the terminal states (SpecFlag)        *)

\* the thresholds the flagging calls made so far were given
ThresholdsUsed == {k.t : k \in {x \in flagHistory : x.op \in {"flag", "feedback"}}}

NeverResolved == \A k \in flagHistory : k.op # "resolve"

\* C12: for a query that was never resolved or dismissed and whose flagging
\* calls all used one threshold, at most one call has returned a reason.
C12_SingleNotification ==
    (NeverResolved /\ Cardinality(ThresholdsUsed) <= 1)
    => \A q \in FlagQueries : ReasonCalls(history.reasons, learner_hash_query(q)) <= 1

\* C12 again, without update_flag_status: the call that brings the count to the
\* threshold is the one call that returns a reason.
C12_NotifiedAtFirstCrossing ==
    (flagHistory = {[op |-> "flag", t |-> DefaultThreshold]})
    => \A r \in flagged_queries :
        r.negative_count >= DefaultThreshold
            => ReasonCalls(history.reasons, r.query_hash) = 1

\* C13: a flag_query_if_needed call or a negative process_feedback on a query
\* whose row is resolved or dismissed returns no reason, whatever the count,
\* and the query is not listed as pending.
C13_NoAlertAfterResolution ==
    \A r \in flagged_queries :
        (r.status \in Resolutions /\ "query" \in DOMAIN ret
            /\ learner_hash_query(ret.query) = r.query_hash)
        => /\ ret.op = "flag_query_if_needed" => ret.reason = None
           /\ ret.op = "process_feedback"
                => ~ret.actions.query_flagged /\ ret.actions.flag_reason = None
           /\ r \notin get_flagged_queries(flagged_queries, "pending")

C13_FlaggedAgainAfterResolution ==
    /\ ret.op = "flag_query_if_needed"
    /\ \E r \in FlagRow(flagged_queries, learner_hash_query(ret.query)) :
        /\ r.status \in Resolutions
        /\ r.negative_count > ret.threshold
    /\ [op |-> "update", t |-> 0] \in flagHistory

\* C14: a status becomes resolved or dismissed only through resolve_flag, and
\* no flag_query_if_needed, update_flag_status or process_feedback call changes
\* the status of a row that is resolved or dismissed.
C14_TerminalStates ==
    [][\A r \in flagged_queries : \A r2 \in FlagRow(flagged_queries', r.query_hash) :
        /\ (r.status \notin Resolutions /\ r2.status \in Resolutions)
            => ret'.op = "resolve_flag"
        /\ (r.status \in Resolutions
                /\ ret'.op \in {"flag_query_if_needed", "update_flag_status",
                                "process_feedback"})
            => r2.status = r.status]_vars

-----------------------------------------------------------------------------
(* Properties of re-sorting (SpecAdj)                                      *)

\* a result without the fields apply_adjustments_to_results adds
Stripped(result) == [f \in DOMAIN result \ {"adjusted_score", "had_adjustment"} |-> result[f]]

IsPermutation(out, in) ==
    /\ Len(out) = Len(in)
    /\ \E perm \in [1..Len(in) -> 1..Len(in)] :
        /\ \A i, j \in 1..Len(in) : i # j => perm[i] # perm[j]
        /\ \A i \in 1..Len(in) : Stripped(out[perm[i]]) = in[i]

\* the adjusted score of a returned result: clamp(0, 1, base + delta)
AdjustedScoreOf(result) ==
    IF "adjusted_score" \in DOMAIN result THEN result.adjusted_score
    ELSE Clamp01(BaseScore(result) + LedgerDelta(result.id))

\* C15: the list returned is a permutation of the input list, ordered by
\* non-increasing adjusted score.
C15_ResortedByAdjustedScore ==
    ret.op = "apply_adjustments_to_results"
    => /\ IsPermutation(ret.out, ret.results)
       /\ \A i, j \in 1..Len(ret.out) :
            i < j => AdjustedScoreOf(ret.out[i]) >= AdjustedScoreOf(ret.out[j])

\* the same with at least one row in the ledger
ResortedWhenLedgerHasRows ==
    (ret.op = "apply_adjustments_to_results" /\ chunk_adjustments # {})
    => /\ IsPermutation(ret.out, ret.results)
       /\ \A i, j \in 1..Len(ret.out) :
            i < j => AdjustedScoreOf(ret.out[i]) >= AdjustedScoreOf(ret.out[j])

-----------------------------------------------------------------------------
(* Properties of process_feedback (SpecFeedback)                           *)

Listed(chunk_ids) == {chunk_ids[i] : i \in 1..Len(chunk_ids)}

OtherMappings(rows, query_hash) == SelectSeq(rows, LAMBDA r : r.query_hash # query_hash)

\* C16: a positive event changes only the adjustments of the listed chunk ids
\* (0.1 and one positive count each) and the query's mapping row; a negative
\* event changes only the cache rows of the query, the adjustments of the
\* listed chunk ids (-0.15 and one negative count each) and the query's
\* flagged row.
C16_FeedbackFrame ==
    [][ret'.op = "process_feedback" =>
        LET h == learner_hash_query(ret'.query)
            listed == Listed(ret'.chunk_ids)
            sign == ret'.is_positive
        IN  /\ {r \in chunk_adjustments' : r.chunk_id \notin listed}
                = {r \in chunk_adjustments : r.chunk_id \notin listed}
            /\ \A c \in listed : \E r2 \in chunk_adjustments' :
                /\ AdjRow(chunk_adjustments', c) = {r2}
                /\ r2.score_adjustment
                    = get_chunk_adjustment(chunk_adjustments, c)
                        + (IF sign THEN BoostDelta ELSE 0 - PenaltyDelta)
                /\ \A r \in AdjRow(chunk_adjustments, c) :
                    /\ r2.positive_count = r.positive_count + (IF sign THEN 1 ELSE 0)
                    /\ r2.negative_count = r.negative_count + (IF sign THEN 0 ELSE 1)
            /\ sign =>
                /\ response_cache' = response_cache
                /\ flagged_queries' = flagged_queries
                /\ OtherMappings(query_mappings', h) = OtherMappings(query_mappings, h)
            /\ ~sign =>
                /\ query_mappings' = query_mappings
                /\ {r \in flagged_queries' : r.query_hash # h}
                    = {r \in flagged_queries : r.query_hash # h}
                /\ response_cache' \subseteq response_cache
                /\ \A r \in response_cache \ response_cache' :
                    Normalize(r.query) = Normalize(ret'.query)
    ]_vars

C16_NegativeEventAmongOtherRows ==
    /\ ret.op = "process_feedback"
    /\ ~ret.is_positive
    /\ ret.actions.cache_invalidated
    /\ response_cache # {}
    /\ ret.chunk_ids = <<"c1">>
    /\ AdjRow(chunk_adjustments, "c2") # {}
    /\ query_mappings # <<>>
    /\ \E r \in flagged_queries : r.query_hash # learner_hash_query(ret.query)

-----------------------------------------------------------------------------
(* Properties of the query mappings (SpecLearn)                            *)

MappingRows(query_hash) ==
    {i \in 1..Len(query_mappings) : query_mappings[i].query_hash = query_hash}

\* C17: there is exactly one mapping row per normalised query that was
\* learned, its positive_count is the number of learn_successful_query calls
\* made for that normalised query and its chunk list is the list of the last.
C17_MappingUpsert ==
    \A q \in LearnQueries :
        LET h == learner_hash_query(q) IN
        IF h \notin DOMAIN history.learn THEN MappingRows(h) = {}
        ELSE /\ Cardinality(MappingRows(h)) = 1
             /\ \A i \in MappingRows(h) :
                /\ query_mappings[i].positive_count = history.learn[h].n
                /\ JsonLoads(query_mappings[i].successful_chunks) = history.learn[h].last

C17_RelearnedWithAnotherList ==
    /\ ret.op = "learn_successful_query"
    /\ \E i \in MappingRows(learner_hash_query(ret.query)) :
        /\ query_mappings[i].positive_count = 3
        /\ query_mappings[i].original_query # ret.query
        /\ JsonLoads(query_mappings[i].successful_chunks) = <<"c2">>
    /\ Len(query_mappings) > 1

\* C18: a learned query text that contains, without regard to case, a word of
\* the lookup query longer than 3 characters gives each chunk of its list a
\* boost, which is 0.05 * n when it is the only learned row.
C18_LearnedBoostRoundTrip ==
    ret.op = "get_learned_chunk_boosts"
    => \A i \in 1..Len(query_mappings) :
        LET row == query_mappings[i]
            text == PyLower(row.original_query)
            words == Split(PyLower(ret.query))
            list == JsonLoads(row.successful_chunks)
        IN  (\E w \in 1..Len(words) :
                /\ Len(words[w]) > MinWordLen
                /\ \E k \in 1..(Len(text) - Len(words[w]) + 1) :
                    SubSeq(text, k, k + Len(words[w]) - 1) = words[w])
            => \A j \in 1..Len(list) :
                /\ list[j] \in DOMAIN ret.boosts
                /\ Len(query_mappings) = 1
                    => ret.boosts[list[j]] = LearnedBoost * row.positive_count

\* the same for learned texts without a capital letter outside ASCII
BoostRoundTripAscii ==
    ret.op = "get_learned_chunk_boosts"
    => \A i \in 1..Len(query_mappings) :
        LET row == query_mappings[i]
            text == PyLower(row.original_query)
            words == Split(PyLower(ret.query))
            list == JsonLoads(row.successful_chunks)
        IN  (/\ SqlLower(row.original_query) = text
             /\ \E w \in 1..Len(words) :
                /\ Len(words[w]) > MinWordLen
                /\ \E k \in 1..(Len(text) - Len(words[w]) + 1) :
                    SubSeq(text, k, k + Len(words[w]) - 1) = words[w])
            => \A j \in 1..Len(list) :
                /\ list[j] \in DOMAIN ret.boosts
                /\ Len(query_mappings) = 1
                    => ret.boosts[list[j]] = LearnedBoost * row.positive_count

-----------------------------------------------------------------------------
(* Properties of the hit count (SpecCache)                                 *)

\* C19: there is at most one cache row per lookup key, and its hit_count is 1
\* plus the number of get hits on the key since the last set for the key.
C19_HitCount ==
    \A r \in response_cache :
        /\ CacheRow(response_cache, r.query_hash) = {r}
        /\ r.query_hash \in DOMAIN history.hits
        /\ r.hit_count = 1 + history.hits[r.query_hash]

C19_ReplacedAfterHit ==
    /\ ret.op = "set"
    /\ \E r \in CacheRow(response_cache, cache_hash_query(ret.query, ret.settings)) :
        /\ r.hit_count = 1
        /\ r.response = "A2"
    /\ \E r \in response_cache : r.hit_count = 2
    /\ now = MaxTime

-----------------------------------------------------------------------------
(* Properties of the fallback (SpecRetr)                                   *)

\* C20: a retrieve call that finds the corpus store without documents at each
\* of its steps returns exactly the dense search result for top_k, with no
\* lexical contribution.
C20_EmptyCorpusFallback ==
    (ret.op = "retrieve" /\ ret.empty)
    => /\ ~ret.fused
       /\ ret.out = semantic_search(ret.store, ret.query, ret.top_k)

\* the same for a retriever that has not built its index before
FallbackOfFreshRetriever ==
    (ret.op = "retrieve" /\ ret.empty /\ bm25 = None)
    => /\ ~ret.fused
       /\ ret.out = semantic_search(ret.store, ret.query, ret.top_k)

-----------------------------------------------------------------------------
(* Properties of the fusion (SpecRetr)                                     *)

\* the places of an id in a list
PlacesOf(results, id) == {i \in 1..Len(results) : results[i].id = id}

\* the audit fields of one fused result against the two candidate lists
AuditedAgainst(x, dense, lexical) ==
    LET rs == PlacesOf(dense, x.id)
        rb == PlacesOf(lexical, x.id)
        sterm(r) == (SemanticWeight * (ScoreOne \div 100)) \div (RrfK + r)
        bterm(r) == (Bm25Weight * (ScoreOne \div 100)) \div (RrfK + r)
    IN  /\ rs # {} \/ rb # {}
        /\ rs = {} <=> x.semantic_rank = None
        /\ rb = {} <=> x.bm25_rank = None
        /\ rs # {} => x.semantic_rank = [kind |-> "int", n |-> CHOOSE r \in rs : TRUE]
        /\ rb # {} => x.bm25_rank = [kind |-> "int", n |-> CHOOSE r \in rb : TRUE]
        /\ (rs # {} /\ rb = {}) => \E r \in rs : x.combined_score = sterm(r)
        /\ (rs = {} /\ rb # {}) => \E r \in rb : x.combined_score = bterm(r)
        /\ (rs # {} /\ rb # {}) =>
                \E r \in rs, q \in rb : x.combined_score = sterm(r) + bterm(q)

FusedScore(id, dense, lexical) ==
    LET rs == PlacesOf(dense, id)
        rb == PlacesOf(lexical, id)
    IN  (IF rs = {} THEN 0
         ELSE (SemanticWeight * (ScoreOne \div 100)) \div (RrfK + CHOOSE r \in rs : TRUE))
      + (IF rb = {} THEN 0
         ELSE (Bm25Weight * (ScoreOne \div 100)) \div (RrfK + CHOOSE r \in rb : TRUE))

\* the shape of an output against the candidates of the two searches
ShapedFrom(out, top_k, dense, lexical) ==
    LET candidates == {dense[i].id : i \in 1..Len(dense)}
                        \cup {lexical[i].id : i \in 1..Len(lexical)}
        returned == {out[i].id : i \in 1..Len(out)}
    IN  /\ Len(out) <= top_k
        /\ Len(dense) <= 2 * top_k
        /\ Len(lexical) <= 2 * top_k
        /\ returned \subseteq candidates
        /\ \A i, j \in 1..Len(out) : i # j => out[i].id # out[j].id
        /\ \A i, j \in 1..Len(out) :
                i < j => out[i].combined_score >= out[j].combined_score
        /\ \A c \in candidates \ returned : \A i \in 1..Len(out) :
                FusedScore(c, dense, lexical) <= out[i].combined_score

\* C22: a fused retrieve returns at most top_k results, drawn from the
\* 2 * top_k candidates of each index, with pairwise distinct ids, in
\* non-increasing order of fused score, and no candidate left out has a fused
\* score above that of a returned result.
C22_FusedOutputShape ==
    [][\A t \in Threads :
        (RetrieveSearch(t) /\ bm25 # None) =>
            ShapedFrom(ret'.out, ret'.top_k,
                semantic_search(store, ret'.query, 2 * ret'.top_k),
                bm25_search(bm25, ret'.query, 2 * ret'.top_k))]_vars

\* one result returned for top_k = 1 while the store holds two chunks, the
\* first of the store being the one left out
C22_TruncatedToTopK ==
    /\ ret.op = "retrieve"
    /\ ret.fused
    /\ ret.top_k = 1
    /\ Len(ret.store) = 2
    /\ Len(ret.out) = 1
    /\ ret.out[1].id = ret.store[2]

-----------------------------------------------------------------------------
(* Properties of the chat front end (SpecChat)                             *)

\* C23: a chat request that missed the cache was served by these steps, once
\* each and in this order: query expansion, retrieval, adjustments, prompt
\* assembly, generation, cache write, analytics log write.
C23_PipelineOrder ==
    \A t \in Threads :
        (chat.requests[t].pc = "answered" /\ ~chat.requests[t].cached)
        => chat.requests[t].steps =
            <<"query_expansion", "retrieval", "adjustments", "prompt_build",
              "llm_generation", "cache_set", "log">>

\* neither write happens before the generation has returned
WritesAfterGeneration ==
    \A t \in Threads : chat.requests[t].pc # "idle" =>
      \A i, j \in DOMAIN chat.requests[t].steps :
        (chat.requests[t].steps[i] = "llm_generation"
            /\ chat.requests[t].steps[j] \in {"cache_set", "log"}) => i < j

-----------------------------------------------------------------------------
(* Properties of process_feedback under store failures (SpecFail)          *)

\* C24: when a store operation fails during process_feedback (cache
\* invalidation, chunk adjustment, flag update or mapping upsert), the call
\* ends in an error and not in a normal return.
C24_StoreErrorsPropagate ==
    (ret.op = "process_feedback" /\ "occurred" \in DOMAIN ret /\ ret.occurred)
        => ret.raised

\* the failures of the learner's own tables do reach the caller
LedgerErrorsPropagate ==
    (ret.op = "process_feedback" /\ "occurred" \in DOMAIN ret /\ ret.occurred
        /\ ret.fault # "invalidate")
        => ret.raised

-----------------------------------------------------------------------------
(* Properties of the boost summation (SpecLearn)                           *)

\* whether the word is in the text, letters compared as SQLite's LIKE does
WordInText(text, word) ==
    \E k \in 1..(Len(text) - Len(word) + 1) :
        SqlLower(SubSeq(text, k, k + Len(word) - 1)) = SqlLower(word)

\* the words of the lookup, by position, that are long enough and in the text
MatchingWords(query, text) ==
    LET words == Split(PyLower(query)) IN
    {w \in 1..Len(words) : Len(words[w]) > MinWordLen /\ WordInText(text, words[w])}

RECURSIVE SumOver(_, _)
SumOver(f, keys) ==
    IF keys = {} THEN 0
    ELSE LET k == CHOOSE x \in keys : TRUE IN f[k] + SumOver(f, keys \ {k})

\* the sum of 0.05 * positive_count over the pairs (matching word, row that
\* lists the chunk)
PairwiseBoost(rows, query, chunk_id) ==
    SumOver([i \in 1..Len(rows) |->
                IF \E j \in 1..Len(JsonLoads(rows[i].successful_chunks)) :
                        JsonLoads(rows[i].successful_chunks)[j] = chunk_id
                    THEN LearnedBoost * rows[i].positive_count
                            * Cardinality(MatchingWords(query, rows[i].original_query))
                    ELSE 0],
            1..Len(rows))

\* the same with a row counted once however many words match it
RowwiseBoost(rows, query, chunk_id) ==
    SumOver([i \in 1..Len(rows) |->
                IF /\ \E j \in 1..Len(JsonLoads(rows[i].successful_chunks)) :
                        JsonLoads(rows[i].successful_chunks)[j] = chunk_id
                   /\ MatchingWords(query, rows[i].original_query) # {}
                    THEN LearnedBoost * rows[i].positive_count
                    ELSE 0],
            1..Len(rows))

\* C25: the boost returned for a chunk id is the sum of 0.05 * positive_count
\* over every pair of a lookup word longer than 3 characters and a learned row
\* whose text contains the word and whose list holds the chunk; a row matched
\* by two words contributes once per matching word.
C25_BoostSummation ==
    ret.op = "get_learned_chunk_boosts"
    => \A c \in ChunkIds :
        (IF c \in DOMAIN ret.boosts THEN ret.boosts[c] ELSE 0)
            = PairwiseBoost(query_mappings, ret.query, c)

\* a chunk receives the boost of every matching row that lists it, each row
\* counted once
BoostSummedOverRows ==
    ret.op = "get_learned_chunk_boosts"
    => \A c \in ChunkIds :
        (IF c \in DOMAIN ret.boosts THEN ret.boosts[c] ELSE 0)
            = RowwiseBoost(query_mappings, ret.query, c)

-----------------------------------------------------------------------------
(* Properties of the sweep (SpecCache)                                     *)

\* the rows a get at time t would treat as expired
ExpiredForGet(rows, t) == {r \in rows : ~IsFresh(r.created_at, t)}

\* C26: clear_expired deletes exactly the rows that get would treat as expired
\* at that instant, those aged exactly the TTL included, leaves every other row
\* as it is and returns the number of rows deleted.
C26_ClearExpiredAgreesWithGet ==
    [][CacheClearExpired =>
        /\ response_cache' = response_cache \ ExpiredForGet(response_cache, now)
        /\ ret'.deleted = Cardinality(ExpiredForGet(response_cache, now))]_vars

\* the sweep removes the rows older than the TTL, returns their number and
\* leaves the others as they are
SweepDeletesOlderThanTtl ==
    [][CacheClearExpired =>
        /\ response_cache' = {r \in response_cache : now - r.created_at <= TtlHours}
        /\ ret'.deleted = Cardinality(response_cache \ response_cache')]_vars

-----------------------------------------------------------------------------
(* Properties of the cached chat (SpecChat)                                *)

\* the calls of the generator for requests with the given cache key
GeneratedFor(key) ==
    {i \in 1..Len(chat.generated) : cache_hash_query(chat.generated[i], ChatSettings) = key}

NoNegativeFeedback == \A h \in flagHistory : h.op # "feedback"

\* C27: while no negative feedback, clear or expiry occurs, the requests with
\* one normalised message and the same key settings call the generator at most
\* once between them, and a request answered from the cache writes no log row.
C27_OneGenerationPerKey ==
    NoNegativeFeedback =>
        /\ \A m \in ChatMessages :
                Cardinality(GeneratedFor(cache_hash_query(m, ChatSettings))) <= 1
        /\ Len(chat.query_logs) <= Len(chat.generated)
        /\ \A t \in Threads :
                (chat.requests[t].pc = "answered" /\ chat.requests[t].cached)
                    => chat.requests[t].log_id = None

\* requests that arrive one after the other share one generation
OneGenerationInSequence ==
    [][\A t \in Threads, m \in ChatMessages :
        (/\ ChatReceive(t, m)
         /\ NoNegativeFeedback
         /\ InFlight = {}
         /\ chat.generated # <<>>)
        => chat'.requests[t].pc = "answered" /\ chat'.requests[t].cached]_vars

-----------------------------------------------------------------------------
(* Properties of pending flags (SpecFlag)                                  *)

\* the smallest threshold a call is made with
LeastThreshold == CHOOSE t \in Thresholds : \A u \in Thresholds : t <= u

\* C28: a flagged-query row in status pending has a negative_count of at least
\* the threshold, and its flag_reason names that count.
C28_PendingImpliesThreshold ==
    \A r \in flagged_queries :
        r.status = "pending"
        => /\ r.negative_count >= LeastThreshold
           /\ r.flag_reason # None
           /\ r.flag_reason.n = r.negative_count

\* a pending row was given a reason that names a count of at least the
\* threshold of the call that made it pending
PendingHasReason ==
    \A r \in flagged_queries :
        r.status = "pending"
        => /\ r.flag_reason # None
           /\ r.flag_reason.n >= LeastThreshold

-----------------------------------------------------------------------------
(* Properties of learning from the chat (SpecChat)                         *)

\* the chunk ids a mapping table lists for a query
LearnedChunks(rows, query) ==
    UNION {{JsonLoads(rows[i].successful_chunks)[j]
                : j \in 1..Len(JsonLoads(rows[i].successful_chunks))}
            : i \in {k \in 1..Len(rows) : rows[k].query_hash = learner_hash_query(query)}}

\* C29: a positive feedback on a response that was served from the cache, for a
\* query whose mapping row lists chunk ids, leaves that list non-empty, and
\* get_learned_chunk_boosts still returns those chunks.
C29_LearnedChunksSurvive ==
    (/\ ret.op = "submit_feedback"
     /\ ret.is_positive
     /\ ret.cached
     /\ LearnedChunks(ret.before, ret.query) # {})
    => /\ LearnedChunks(query_mappings, ret.query) # {}
       /\ Len(ret.query) > MinWordLen =>
            LearnedChunks(ret.before, ret.query)
                \subseteq DOMAIN get_learned_chunk_boosts(query_mappings, ret.query)

\* the list survives a positive feedback on a response that was generated
LearnedChunksSurviveGenerated ==
    (/\ ret.op = "submit_feedback"
     /\ ret.is_positive
     /\ ~ret.cached
     /\ ret.chunk_ids # <<>>
     /\ LearnedChunks(ret.before, ret.query) # {})
    => LearnedChunks(query_mappings, ret.query) # {}

-----------------------------------------------------------------------------
(* Properties of retrieval after the corpus changed (SpecRetr)             *)

\* C30: every chunk returned by retrieve is in the corpus store at the time of
\* the call, the corpus not changing while the call runs.
C30_NoRetrievalOfRemovedChunks ==
    (ret.op = "retrieve" /\ ret.steady)
    => \A i \in 1..Len(ret.out) :
            \E j \in 1..Len(ret.store) : ret.store[j] = ret.out[i].id

\* the same for the calls that find no index and build it themselves
FreshIndexReturnsStoredChunks ==
    [][\A t \in Threads :
        (RetrieveSearch(t) /\ retrievers[t].steady /\ bm25 # None /\ bm25.ids = store)
        => \A i \in 1..Len(ret'.out) :
                \E j \in 1..Len(store) : store[j] = ret'.out[i].id]_vars

====
